---- MODULE Spec2Model ----
(***************************************************************************)
(* The offline-resilience core of the emergency app: the network monitor   *)
(* (NetworkService), the durable operation queue (OfflineQueueService),    *)
(* the report/resolve calls of EmergencyApiService and the session         *)
(* orchestration of AppProvider (startEmergency / endEmergency).           *)
(*                                                                         *)
(* JavaScript runs one task at a time: every action below is the code that *)
(* runs between two suspension points (an await on storage, on the primary *)
(* store, on the SMS channel or on a sync handler).                        *)
(***************************************************************************)
EXTENDS Integers, Sequences, FiniteSets, TLC

\* ------------------------------------------------------------------ bounds
\* operations ever enqueued (ids 1..MaxOps)
MaxOps == 2
\* incident records ever inserted into the primary store
MaxIncidents == 2
\* the retry count up to which a raising handler is followed
RetryCap == 5
\* OS connectivity listeners registered at a time
MaxInits == 2
\* rows of the responders table
MaxResponders == 3
\* the largest position of a responder and the largest search radius, in km
MaxKm == 2

\* ------------------------------------------------------- program constants
MAX_RETRIES == 5

OpTypes == {"emergency_report", "location_update", "incident_resolve"}

\* the kinds the client of QueueSpec enqueues and registers handlers for
ClientTypes == {"emergency_report", "location_update"}

NoHandler == "none"

VARIABLES
    \* NetworkService, and the platform's connectivity API as the monitor
    \* uses it (netinfo)
    isConnected, listeners, subscription, netinfo,
    \* OfflineQueueService
    queue, isProcessing, syncCallbacks, stored, drains, nextId,
    \* primary store (incidents table)
    incidents,
    \* AppProvider
    initPc, isOnline, hasLocation, isEmergencyActive, currentIncidentId, call,
    \* observation of the run: handler invocations completed per queued
    \* operation (by id), and the ids that were in the storage when the process
    \* started
    attempts, persistedIds,
    \* the monitor callbacks the task that just ran invoked, in order
    notified,
    \* the admin dashboard: the incident its detail dialog shows, as it was
    \* when the row was selected
    selectedIncident,
    \* the responder lookup: the responders table, a lookup's arguments and
    \* what it returned
    geo,
    \* the list a client of the queue got from getPendingOperations
    pending

netVars == <<isConnected, listeners, subscription, netinfo>>
queueVars == <<queue, isProcessing, syncCallbacks, stored, drains, nextId>>
appVars == <<initPc, isOnline, hasLocation, isEmergencyActive, currentIncidentId, call>>
obsVars == <<attempts, persistedIds>>
vars == <<netVars, queueVars, incidents, appVars, obsVars, notified, selectedIncident, geo,
          pending>>

\* the task invoked no monitor callback, and is neither the admin page's, nor
\* a responder lookup, nor a client's use of a list of pending operations
Silent ==
    /\ notified' = <<>>
    /\ UNCHANGED <<selectedIncident, geo, pending>>

\* the platform's connectivity API before the monitor used it.  subs: the
\* event listeners registered with NetInfo.addEventListener and not removed,
\* each of them handleNetworkChange; destroyed: destroy() ran and init() has
\* not been called since
NoNetInfo == [subs |-> 0, destroyed |-> FALSE]

Subscribed == [NoNetInfo EXCEPT !.subs = 1]

\* no list of pending operations was handed out.  refs: the operation objects
\* the list holds, each named by its id; written: the places of the list
\* whose object the client has written to
NoSnapshot == [refs |-> <<>>, written |-> {}]

\* useState<Incident | null>(null)
NoSelection == [id |-> 0, status |-> "none"]

\* no responder lookup has been made.  responders: the rows of the table, a
\* row's id being its place in the table's order; op: the lookup made, from
\* loc, with cityId (0: none given) or radiusKm; failed: its query failed;
\* result: what it returned (<<>> for null and for the empty list)
NoGeo ==
    [responders |-> <<>>, op |-> "none", loc |-> 0, cityId |-> 0, radiusKm |-> 0,
     failed |-> FALSE, result |-> <<>>]

\* a returned call's caller resumes in the same turn of the event loop (its
\* continuation is a microtask), before any timer, event or I/O completion
TaskBoundary == call.pc # "returned"

\* ------------------------------------------------------------ OfflineQueue
\* a QueuedOperation: data is the incident id of an incident_resolve, else 0
NewOperation(id, type, data) ==
    [id |-> id, type |-> type, data |-> data, retries |-> 0]

QueueIds(q) == {q[i].id : i \in 1..Len(q)}

\* this.queue.filter(op => !processed.includes(op.id))
FilterQueue(q, processed) == SelectSeq(q, LAMBDA op : op.id \notin processed)

NextHandledBreak(q, i, callbacks) ==
    IF i <= Len(q) /\ callbacks[q[i].type] # NoHandler THEN i ELSE 0

NextHandledLast(q, i, callbacks) ==
    LET C == {j \in i..Len(q) : callbacks[q[j].type] # NoHandler}
    IN  IF C = {} THEN 0 ELSE CHOOSE j \in C : \A k \in C : j >= k

\* the next operation at or after position i whose type has a handler (the
\* loop `continue`s over the others); 0 when the loop is over
NextHandled(q, i, callbacks) ==
    LET C == {j \in i..Len(q) : callbacks[q[j].type] # NoHandler}
    IN  IF C = {} THEN 0 ELSE CHOOSE j \in C : \A k \in C : j <= k

\* JSON.stringify(this.queue) / JSON.parse(stored): the stored text lists, per
\* operation, its id, type, data and retries
Stringify(q) == [i \in 1..Len(q) |-> <<q[i].id, q[i].type, q[i].data, q[i].retries>>]

Parse(text) ==
    [i \in 1..Len(text) |->
        [id |-> text[i][1], type |-> text[i][2], data |-> text[i][3], retries |-> text[i][4]]]

RetryExhaustedEarly(r) == r >= 1

\* operation.retries >= MAX_RETRIES
RetryExhausted(r) == r >= MAX_RETRIES

GuardBlocksNoReentrancy(processing, q, status) == Len(q) = 0 \/ ~status

\* the early returns of processQueue
GuardBlocks(processing, q, status) == processing \/ Len(q) = 0 \/ ~status

\* the queue service's mutable state as one value, so that the several calls
\* one task makes in a row can be composed.  drains holds the processQueue
\* calls that are suspended: at a handler (pc "handler", the operation at idx
\* of the queue being attempted) or at the final save (pc "save"); since is
\* the id the next enqueue would give when the pass started, so that the
\* operations with smaller ids are those the pass found in the queue
QS == [queue |-> queue, isProcessing |-> isProcessing, drains |-> drains]

\* the loop of processQueue from position i on: it stops at the first handler
\* it has to await, or runs to the end, filters and starts the final save
RunLoop(q, i, processed, callbacks) ==
    LET j == NextHandled(q, i, callbacks)
    IN  IF j # 0
        THEN [queue |-> q,
              drain |-> [pc |-> "handler", idx |-> j, processed |-> processed,
                         snap |-> <<>>, since |-> 0]]
        ELSE LET f == FilterQueue(q, processed)
             IN  [queue |-> f,
                  drain |-> [pc |-> "save", idx |-> 0, processed |-> {},
                             snap |-> Stringify(f), since |-> 0]]

\* processQueue(), up to its first suspension point
ProcessQueue(s, status, callbacks) ==
    IF GuardBlocks(s.isProcessing, s.queue, status)
    THEN s
    ELSE LET r == RunLoop(s.queue, 1, {}, callbacks)
         IN  [queue |-> r.queue, isProcessing |-> TRUE,
              drains |-> Append(s.drains,
                                IF r.drain.pc = "handler"
                                THEN [r.drain EXCEPT !.since = nextId] ELSE r.drain)]

\* the outcomes a handler's promise can settle with
HandlerOutcomes(h, op) ==
    CASE h = "syncEmergencyReport" ->
            (IF isConnected /\ Len(incidents) < MaxIncidents
             THEN {"reported", "responding"} ELSE {}) \cup {"false"}
      [] h = "syncIncidentResolve" ->
            (IF isConnected THEN {"true"} ELSE {}) \cup {"false"}
      [] OTHER ->
            {"true", "false"} \cup (IF op.retries < RetryCap THEN {"raise"} ELSE {})

Succeeded(o) == o \in {"true", "reported", "responding"}

\* the primary store after a handler settled with outcome o
StoreAfterHandler(o, op) ==
    CASE o \in {"reported", "responding"} ->
            Append(incidents, [status |-> o, op |-> op.id])
      [] o = "true" /\ op.type = "incident_resolve" /\ op.data \in 1..Len(incidents)
                   /\ syncCallbacks[op.type] = "syncIncidentResolve" ->
            [incidents EXCEPT ![op.data].status = "resolved"]
      [] OTHER -> incidents

ReplaceAt(seq, k, e) == [seq EXCEPT ![k] = e]
RemoveAt(seq, k) == [i \in 1..(Len(seq) - 1) |-> IF i < k THEN seq[i] ELSE seq[i + 1]]

\* processQueue resumes after `await handler(operation.data)`
HandlerDone(k, o) ==
    /\ TaskBoundary
    /\ k \in 1..Len(drains)
    /\ drains[k].pc = "handler"
    /\ LET d == drains[k]
           op == queue[d.idx]
           h == syncCallbacks[op.type]
       IN  /\ o \in HandlerOutcomes(h, op)
           /\ LET q1 == IF Succeeded(o) THEN queue
                        ELSE [queue EXCEPT ![d.idx].retries = @ + 1]
                  p1 == IF Succeeded(o) \/ (o = "false" /\ RetryExhausted(q1[d.idx].retries))
                        THEN d.processed \cup {op.id} ELSE d.processed
                  r == RunLoop(q1, d.idx + 1, p1, syncCallbacks)
              IN  /\ queue' = r.queue
                  /\ drains' = ReplaceAt(drains, k,
                                         IF r.drain.pc = "handler"
                                         THEN [r.drain EXCEPT !.since = d.since]
                                         ELSE r.drain)
                  /\ incidents' = StoreAfterHandler(o, op)
                  /\ attempts' = [i \in 1..MaxOps |->
                                     IF i \notin QueueIds(r.queue) THEN 0
                                     ELSE IF i = op.id THEN attempts[i] + 1
                                     ELSE attempts[i]]
    /\ UNCHANGED <<netVars, isProcessing, syncCallbacks, stored, nextId, appVars,
                   persistedIds>>
    /\ Silent

FlagAfterSaveUncaught(ok) == ~ok

\* saveQueue catches a failed write, so that `this.isProcessing = false` runs
\* whether the write succeeded (ok) or not
FlagAfterSave(ok) == FALSE

\* processQueue resumes after its final `await this.saveQueue()`; saveQueue
\* swallows a failed write
DrainSaveDone(k, ok) ==
    /\ TaskBoundary
    /\ k \in 1..Len(drains)
    /\ drains[k].pc = "save"
    /\ stored' = IF ok THEN drains[k].snap ELSE stored
    /\ isProcessing' = FlagAfterSave(ok)
    /\ drains' = RemoveAt(drains, k)
    /\ UNCHANGED <<netVars, queue, syncCallbacks, nextId, incidents, appVars, obsVars>>
    /\ Silent

\* ---------------------------------------------------------- NetworkService
\* notifyListeners: each callback in registration order.  The app-level
\* listener sets isOnline and, when connected, calls processQueue; the
\* queue's onNetworkChange calls processQueue when connected.
RECURSIVE Notify(_, _, _, _)
Notify(ls, s, connected, callbacks) ==
    IF ls = <<>> THEN s
    ELSE LET s1 == IF connected THEN ProcessQueue(s, connected, callbacks) ELSE s
         IN  Notify(Tail(ls), s1, connected, callbacks)

\* the callbacks notifyListeners invokes, in registration order, each with the
\* monitor's status; pq: the callback calls processQueue (both the app's
\* listener and the queue's onNetworkChange do when the status is connected)
Delivered(ls, connected) ==
    [i \in 1..Len(ls) |-> [listener |-> ls[i], value |-> connected, pq |-> connected]]

\* wasConnected !== this.isConnected
Changed(was, now) == was # now

\* handleNetworkChange(state): an event of the OS connectivity subscription
NetChange(b) ==
    /\ TaskBoundary
    /\ netinfo.subs > 0
    /\ isConnected' = b
    /\ LET s1 == IF Changed(isConnected, b)
                 THEN Notify(listeners, QS, b, syncCallbacks) ELSE QS
       IN  /\ queue' = s1.queue
           /\ isProcessing' = s1.isProcessing
           /\ drains' = s1.drains
    /\ isOnline' = IF Changed(isConnected, b) /\ \E i \in 1..Len(listeners) : listeners[i] = "app"
                   THEN b ELSE isOnline
    /\ call' = IF b /\ call.pc \notin {"idle", "returned"}
               THEN [call EXCEPT !.up = TRUE] ELSE call
    /\ notified' = IF Changed(isConnected, b) THEN Delivered(listeners, b) ELSE <<>>
    /\ UNCHANGED <<listeners, subscription, netinfo, syncCallbacks, stored, nextId,
                   incidents, initPc, hasLocation, isEmergencyActive, currentIncidentId,
                   obsVars, selectedIncident, geo, pending>>

EnqueuePushLost(q, id, type, data) == q

\* this.queue.push(operation)
EnqueuePush(q, id, type, data) == Append(q, NewOperation(id, type, data))

\* ------------------------------------------------- calls of the UI / client
\* one call at a time is followed: what it is (op), where it is suspended
\* (pc), what it saw when it was made (conn: the monitor's status, loc: a
\* location was known, idle: the session was Idle, x: currentIncidentId,
\* qBefore: the queue size), what it did (storeFailed, created: the incident
\* inserted, smsTried, smsOk, touched: a status update was sent, resolved: x
\* was resolved in the store when it returned, enq: the operations it
\* enqueued, pq: what the processQueue started by its enqueue did, up: the
\* monitor reported connected while it ran, fetchFailed: its connectivity
\* read failed, saveOk: the storage
\* write of its enqueue succeeded) and what it returned (ret, qAfter: the queue size then)
IdleCall ==
    [pc |-> "idle", op |-> "none", ret |-> "none",
     conn |-> FALSE, loc |-> FALSE, idle |-> FALSE, x |-> 0,
     storeFailed |-> FALSE, created |-> 0, smsTried |-> FALSE, smsOk |-> FALSE,
     resolved |-> FALSE, touched |-> FALSE,
     enq |-> <<>>, qBefore |-> 0, qAfter |-> 0, snap |-> <<>>, pq |-> "none",
     up |-> FALSE, fetchFailed |-> FALSE, saveOk |-> TRUE]

NewCall(op) ==
    [IdleCall EXCEPT !.op = op, !.conn = isConnected, !.loc = hasLocation,
                     !.idle = (~isEmergencyActive /\ currentIncidentId = 0),
                     !.x = currentIncidentId, !.qBefore = Len(queue)]

\* the call after enqueue(type, data) ran up to `await this.saveQueue()`
Enqueued(c, pc, q, type, data) ==
    [c EXCEPT !.pc = pc, !.enq = Append(@, [type |-> type, data |-> data]),
              !.snap = Stringify(q)]

\* the call has returned ret; its caller has not resumed yet
Returned(c, ret, q) ==
    [c EXCEPT !.pc = "returned", !.ret = ret, !.qAfter = Len(q), !.snap = <<>>]

\* the outcomes of the incident insert of reportViaSupabase
InsertOutcomes ==
    (IF isConnected /\ Len(incidents) < MaxIncidents
     THEN {"reported", "responding"} ELSE {}) \cup {"error"}

\* startEmergency, with reportEmergency up to its first suspension point
StartEmergency ==
    /\ call.pc = "idle"
    /\ nextId <= MaxOps
    /\ LET c == NewCall("start")
       IN  IF ~hasLocation
           THEN /\ call' = Returned(c, "false", queue)
                /\ UNCHANGED <<queue, nextId>>
           ELSE IF isOnline
           THEN IF isConnected
                THEN /\ call' = [c EXCEPT !.pc = "se_insert"]
                     /\ UNCHANGED <<queue, nextId>>
                ELSE /\ queue' = EnqueuePush(queue, nextId, "emergency_report", 0)
                     /\ nextId' = nextId + 1
                     /\ call' = Enqueued(c, "se_api_save", queue', "emergency_report", 0)
           ELSE /\ call' = [c EXCEPT !.pc = "se_sms", !.smsTried = TRUE]
                /\ UNCHANGED <<queue, nextId>>
    /\ UNCHANGED <<netVars, isProcessing, syncCallbacks, stored, drains, incidents,
                   initPc, isOnline, hasLocation, isEmergencyActive, currentIncidentId,
                   obsVars>>
    /\ Silent

\* reportEmergency resumes after `await this.reportViaSupabase(...)`: on
\* success startEmergency goes Active with the incident id; on failure
\* reportEmergency enqueues the report
StoreInsertDone(o) ==
    /\ call.pc = "se_insert"
    /\ o \in InsertOutcomes
    /\ IF o # "error"
       THEN /\ incidents' = Append(incidents, [status |-> o, op |-> 0])
            /\ isEmergencyActive' = TRUE
            /\ currentIncidentId' = Len(incidents')
            /\ call' = Returned([call EXCEPT !.created = Len(incidents')], "true", queue)
            /\ UNCHANGED <<queue, nextId>>
       ELSE /\ queue' = EnqueuePush(queue, nextId, "emergency_report", 0)
            /\ nextId' = nextId + 1
            /\ call' = Enqueued([call EXCEPT !.storeFailed = TRUE], "se_api_save",
                                queue', "emergency_report", 0)
            /\ UNCHANGED <<incidents, isEmergencyActive, currentIncidentId>>
    /\ UNCHANGED <<netVars, isProcessing, syncCallbacks, stored, drains,
                   initPc, isOnline, hasLocation, obsVars>>
    /\ Silent

\* startEmergency resumes after `await smsService.sendEmergencySMS(...)`
SmsDone(ok) ==
    /\ call.pc = "se_sms"
    /\ IF ok
       THEN /\ isEmergencyActive' = TRUE
            /\ queue' = EnqueuePush(queue, nextId, "emergency_report", 0)
            /\ nextId' = nextId + 1
            /\ call' = Enqueued([call EXCEPT !.smsOk = TRUE], "se_sms_save",
                                queue', "emergency_report", 0)
       ELSE /\ call' = Returned(call, "false", queue)
            /\ UNCHANGED <<isEmergencyActive, queue, nextId>>
    /\ UNCHANGED <<netVars, isProcessing, syncCallbacks, stored, drains, incidents,
                   initPc, isOnline, hasLocation, currentIncidentId, obsVars>>
    /\ Silent

EndNeedsResolveAlways(id) == TRUE

\* if (currentIncidentId)
EndNeedsResolve(id) == id # 0

\* endEmergency, with resolveIncident up to its first suspension point
EndEmergency ==
    /\ call.pc = "idle"
    /\ nextId <= MaxOps
    /\ LET c == NewCall("end")
       IN  IF EndNeedsResolve(currentIncidentId)
           THEN IF ~isConnected
                THEN /\ queue' = EnqueuePush(queue, nextId, "incident_resolve", currentIncidentId)
                     /\ nextId' = nextId + 1
                     /\ call' = Enqueued(c, "ee_save", queue', "incident_resolve",
                                         currentIncidentId)
                     /\ UNCHANGED <<isEmergencyActive, currentIncidentId>>
                ELSE /\ call' = [c EXCEPT !.pc = "ee_update"]
                     /\ UNCHANGED <<queue, nextId, isEmergencyActive, currentIncidentId>>
           ELSE /\ isEmergencyActive' = FALSE
                /\ currentIncidentId' = 0
                /\ call' = Returned(c, "true", queue)
                /\ UNCHANGED <<queue, nextId>>
    /\ UNCHANGED <<netVars, isProcessing, syncCallbacks, stored, drains, incidents,
                   initPc, isOnline, hasLocation, obsVars>>
    /\ Silent

\* resolveIncident resumes after the status update; endEmergency ignores the
\* boolean it returns
ResolveUpdateDone(ok) ==
    /\ call.pc = "ee_update"
    /\ ok => isConnected
    /\ incidents' = IF ok /\ call.x \in 1..Len(incidents)
                    THEN [incidents EXCEPT ![call.x].status = "resolved"]
                    ELSE incidents
    /\ isEmergencyActive' = FALSE
    /\ currentIncidentId' = 0
    /\ call' = Returned([call EXCEPT !.touched = TRUE,
                                     !.resolved = (call.x \in 1..Len(incidents)
                                                   /\ incidents'[call.x].status = "resolved")],
                        "true", queue)
    /\ UNCHANGED <<netVars, queueVars, initPc, isOnline, hasLocation, obsVars>>
    /\ Silent

EnqueueNeverTriggers(status) == FALSE

\* if (networkService.getStatus()) this.processQueue()
EnqueueTriggers(status) == status

\* enqueue resumes after `await this.saveQueue()`: processQueue is started if
\* the monitor reports connected, enqueue returns, and so does its caller
EnqueueSaveDone(ok) ==
    /\ call.pc \in {"se_api_save", "se_sms_save", "ee_save", "enq_save"}
    /\ stored' = IF ok THEN call.snap ELSE stored
    /\ LET s1 == IF EnqueueTriggers(isConnected)
                 THEN ProcessQueue(QS, isConnected, syncCallbacks)
                 ELSE QS
       IN  /\ queue' = s1.queue
           /\ isProcessing' = s1.isProcessing
           /\ drains' = s1.drains
    /\ isEmergencyActive' = CASE call.pc = "se_api_save" -> TRUE
                              [] call.pc = "ee_save" -> FALSE
                              [] OTHER -> isEmergencyActive
    /\ currentIncidentId' = IF call.pc = "ee_save" THEN 0 ELSE currentIncidentId
    /\ call' = Returned([call EXCEPT !.pq = IF ~EnqueueTriggers(isConnected) THEN "none"
                                             ELSE IF Len(drains') > Len(drains)
                                             THEN "started" ELSE "blocked",
                                     !.saveOk = ok],
                        IF call.pc = "enq_save" THEN "id" ELSE "true", queue')
    /\ UNCHANGED <<netVars, syncCallbacks, nextId, incidents, initPc, isOnline,
                   hasLocation, obsVars>>
    /\ Silent

\* ------------------------------------- the queue's API called by a client
\* registerSyncHandler(type, handler) with a handler of the client's own
RegisterSyncHandler(t) ==
    /\ TaskBoundary
    /\ syncCallbacks' = [syncCallbacks EXCEPT ![t] = "handler"]
    /\ UNCHANGED <<netVars, queue, isProcessing, stored, drains, nextId, incidents,
                   appVars, obsVars>>
    /\ Silent

\* enqueue(type, data) up to `await this.saveQueue()`
Enqueue(t) ==
    /\ call.pc = "idle"
    /\ nextId <= MaxOps
    /\ queue' = EnqueuePush(queue, nextId, t, 0)
    /\ nextId' = nextId + 1
    /\ call' = Enqueued(NewCall("enqueue"), "enq_save", queue', t, 0)
    /\ UNCHANGED <<netVars, isProcessing, syncCallbacks, stored, drains, incidents,
                   initPc, isOnline, hasLocation, isEmergencyActive, currentIncidentId,
                   obsVars>>
    /\ Silent

\* processQueue() called directly
ProcessQueueCall ==
    /\ TaskBoundary
    /\ LET s1 == ProcessQueue(QS, isConnected, syncCallbacks)
       IN  /\ queue' = s1.queue
           /\ isProcessing' = s1.isProcessing
           /\ drains' = s1.drains
    /\ UNCHANGED <<netVars, syncCallbacks, stored, nextId, incidents, appVars, obsVars>>
    /\ Silent

\* getPendingOperations(): [...this.queue], a new list of the operation
\* objects the queue holds.  The client keeps one such list at a time.
GetPendingOperations ==
    /\ TaskBoundary
    /\ pending = NoSnapshot
    /\ queue # <<>>
    /\ pending' = [refs |-> [i \in 1..Len(queue) |-> queue[i].id], written |-> {}]
    /\ notified' = <<>>
    /\ UNCHANGED <<netVars, queueVars, incidents, appVars, obsVars, selectedIncident, geo>>

\* the client removes the first element of the list it was given
SnapshotShift ==
    /\ TaskBoundary
    /\ pending.refs # <<>>
    /\ pending' = [refs |-> Tail(pending.refs),
                   written |-> {i - 1 : i \in pending.written \ {1}}]
    /\ notified' = <<>>
    /\ UNCHANGED <<netVars, queueVars, incidents, appVars, obsVars, selectedIncident, geo>>

\* an assignment of r to the retries of the operation object ref: the queue
\* holds that very object for as long as the operation is queued (push adds
\* the object, filter keeps it, the spread of getPendingOperations copies the
\* list and not the objects)
WriteThrough(q, ref, r) ==
    [j \in 1..Len(q) |-> IF q[j].id = ref THEN [q[j] EXCEPT !.retries = r] ELSE q[j]]

\* the client assigns r to the retries of the i-th operation of the list it
\* was given
SnapshotWrite(i, r) ==
    /\ TaskBoundary
    /\ i \in (1..Len(pending.refs)) \ pending.written
    /\ queue' = WriteThrough(queue, pending.refs[i], r)
    /\ pending' = [pending EXCEPT !.written = @ \cup {i}]
    /\ notified' = <<>>
    /\ UNCHANGED <<netVars, isProcessing, syncCallbacks, stored, drains, nextId,
                   incidents, appVars, obsVars, selectedIncident, geo>>

\* ------------------------------------------------ the monitor's probe
\* checkConnection() up to `await NetInfo.fetch()`
CheckConnection ==
    /\ call.pc = "idle"
    /\ call' = [NewCall("check") EXCEPT !.pc = "cc_fetch"]
    /\ UNCHANGED <<netVars, queueVars, incidents, initPc, isOnline, hasLocation,
                   isEmergencyActive, currentIncidentId, obsVars>>
    /\ Silent

\* checkConnection resumes: the read gave a state (o "true" / "false"), which
\* is stored and returned with no listener notified, or failed (o "error"),
\* and the catch returns false
CheckConnectionDone(o) ==
    /\ call.pc = "cc_fetch"
    /\ isConnected' = IF o = "error" THEN isConnected ELSE (o = "true")
    /\ call' = Returned([call EXCEPT !.fetchFailed = (o = "error")],
                        IF o = "true" THEN "true" ELSE "false", queue)
    /\ UNCHANGED <<listeners, subscription, netinfo, queueVars, incidents, initPc,
                   isOnline, hasLocation, isEmergencyActive, currentIncidentId, obsVars>>
    /\ Silent

\* destroy(), called by the cleanup of AppProvider's effect when the provider
\* unmounts: the subscription the monitor holds, if any, is removed, and the
\* listeners are dropped
Destroy ==
    /\ TaskBoundary
    /\ ~netinfo.destroyed
    /\ netinfo' = [netinfo EXCEPT !.subs = IF subscription THEN @ - 1 ELSE @,
                                  !.destroyed = TRUE]
    /\ subscription' = FALSE
    /\ listeners' = <<>>
    /\ UNCHANGED <<isConnected, queueVars, incidents, appVars, obsVars>>
    /\ Silent

\* ------------------------------------------------------ responder lookup
\* the city ids of the cities table, and the places lookups are made from
Cities == {1, 2}
Locations == {0, 1}

\* a row of the responders table; positions are points of one meridian, pos
\* km from its origin
Responder == [is_available : BOOLEAN, city_id : Cities, pos : 0..MaxKm]

Tables == UNION {[1..n -> Responder] : n \in 0..MaxResponders}

Abs(x) == IF x < 0 THEN -x ELSE x

\* calculateDistance: the haversine distance, which between two points of one
\* meridian is the length of the arc between them
CalculateDistance(a, b) == Abs(a - b)

\* calculateETA: Math.max(Math.ceil((distanceKm / 30) * 60), 1)
CalculateETA(distanceKm) == IF 2 * distanceKm > 1 THEN 2 * distanceKm ELSE 1

\* from('responders').select('*').eq('is_available', true), with
\* .eq('city_id', cityId) when cityId is truthy
QueryAvailable(table, cityId) ==
    LET rows == [i \in 1..Len(table) |->
                    [id |-> i, is_available |-> table[i].is_available,
                     city_id |-> table[i].city_id, pos |-> table[i].pos]]
    IN  SelectSeq(rows, LAMBDA r : r.is_available /\ (cityId # 0 => r.city_id = cityId))

\* responders.map(r => ({...r, distance: this.calculateDistance(...)}))
WithDistances(rows, loc) ==
    [i \in 1..Len(rows) |->
        [id |-> rows[i].id, distance |-> CalculateDistance(loc, rows[i].pos),
         estimatedArrival |-> 0]]

\* Array.prototype.sort((a, b) => a.distance - b.distance): a stable sort,
\* here by insertion of each element behind those not farther than it
RECURSIVE InsertSorted(_, _)
InsertSorted(sorted, r) ==
    IF sorted = <<>> THEN <<r>>
    ELSE IF Head(sorted).distance - r.distance <= 0
         THEN <<Head(sorted)>> \o InsertSorted(Tail(sorted), r)
         ELSE <<r>> \o sorted

RECURSIVE SortByDistance(_)
SortByDistance(rs) ==
    IF rs = <<>> THEN <<>>
    ELSE InsertSorted(SortByDistance(SubSeq(rs, 1, Len(rs) - 1)), rs[Len(rs)])

\* .map(r => ({...r, estimatedArrival: this.calculateETA(r.distance)}))
WithETA(rs) ==
    [i \in 1..Len(rs) |-> [rs[i] EXCEPT !.estimatedArrival = CalculateETA(rs[i].distance)]]

NearestOfLast(sorted) == sorted[Len(sorted)]

\* const nearest = withDistances[0]
NearestOf(sorted) == sorted[1]

\* findNearestResponder on the rows its query returned
FindNearest(rows, loc) ==
    IF Len(rows) = 0 THEN <<>>
    ELSE WithETA(<<NearestOf(SortByDistance(WithDistances(rows, loc)))>>)

WithinRadiusStrict(distance, radiusKm) == distance < radiusKm

\* .filter(r => r.distance <= radiusKm)
WithinRadius(distance, radiusKm) == distance <= radiusKm

\* getNearbyResponders on the rows its query returned
NearbyOf(rows, loc, radiusKm) ==
    SortByDistance(WithETA(SelectSeq(WithDistances(rows, loc),
                                     LAMBDA r : WithinRadius(r.distance, radiusKm))))

\* findNearestResponder(location, cityId): the query may fail (an error in its
\* result, or a rejection caught by the catch), and null is returned
FindNearestResponder(loc, cityId, ok) ==
    /\ geo.op = "none"
    /\ geo' = [geo EXCEPT !.op = "nearest", !.loc = loc, !.cityId = cityId,
                          !.failed = ~ok,
                          !.result = IF ok
                                     THEN FindNearest(QueryAvailable(geo.responders, cityId), loc)
                                     ELSE <<>>]
    /\ notified' = <<>>
    /\ UNCHANGED <<netVars, queueVars, incidents, appVars, obsVars, selectedIncident,
                   pending>>

\* getNearbyResponders(location, radiusKm): a failed query returns []
GetNearbyResponders(loc, radiusKm, ok) ==
    /\ geo.op = "none"
    /\ geo' = [geo EXCEPT !.op = "nearby", !.loc = loc, !.radiusKm = radiusKm,
                          !.failed = ~ok,
                          !.result = IF ok
                                     THEN NearbyOf(QueryAvailable(geo.responders, 0), loc,
                                                   radiusKm)
                                     ELSE <<>>]
    /\ notified' = <<>>
    /\ UNCHANGED <<netVars, queueVars, incidents, appVars, obsVars, selectedIncident,
                   pending>>

\* --------------------------------------------- admin dashboard, incidents
\* setSelectedIncident(incident): the admin opens the dialog of a row of the
\* list, which fetchIncidents keeps as fresh as the store
AdminSelect(n) ==
    /\ n \in 1..Len(incidents)
    /\ selectedIncident' = [id |-> n, status |-> incidents[n].status]
    /\ notified' = <<>>
    /\ UNCHANGED <<netVars, queueVars, incidents, appVars, obsVars, geo, pending>>

\* the status buttons the dialog renders for the incident it shows
AdminButtons(status) ==
    (IF status = "reported" THEN {"acknowledged"} ELSE {})
        \cup (IF status \in {"reported", "acknowledged"} THEN {"dispatched"} ELSE {})
        \cup (IF status \notin {"resolved", "cancelled"} THEN {"resolved"} ELSE {})

\* updateStatus(selectedIncident.id, newStatus): the update is sent whatever
\* the incident's status in the store is by then
AdminUpdateStatus(newStatus) ==
    /\ selectedIncident.id # 0
    /\ newStatus \in AdminButtons(selectedIncident.status)
    /\ incidents' = [incidents EXCEPT ![selectedIncident.id].status = newStatus]
    /\ selectedIncident' = NoSelection
    /\ notified' = <<>>
    /\ UNCHANGED <<netVars, queueVars, appVars, obsVars, geo, pending>>

\* ------------------------------------------------------ initializeServices
AppHandlers ==
    [t \in OpTypes |->
        CASE t = "emergency_report" -> "syncEmergencyReport"
          [] t = "incident_resolve" -> "syncIncidentResolve"
          [] OTHER -> NoHandler]

\* networkService.init() has fetched state b and subscribed; the app reads the
\* status, registers its listener and starts offlineQueueService.init()
InitNetwork(b) ==
    /\ TaskBoundary
    /\ initPc = "start"
    /\ isConnected' = b
    /\ subscription' = TRUE
    /\ netinfo' = [netinfo EXCEPT !.subs = @ + 1]
    /\ isOnline' = b
    /\ listeners' = Append(listeners, "app")
    /\ initPc' = "qinit"
    /\ UNCHANGED <<queueVars, incidents, hasLocation, isEmergencyActive,
                   currentIncidentId, call, obsVars>>
    /\ Silent

\* offlineQueueService.init() resumes after AsyncStorage.getItem (a failed
\* read skips the load and the listener); emergencyApiService.init() then
\* registers the two sync handlers
InitQueue(ok) ==
    /\ TaskBoundary
    /\ initPc = "qinit"
    /\ queue' = IF ok /\ stored # <<>> THEN Parse(stored) ELSE queue
    /\ listeners' = IF ok THEN Append(listeners, "queue") ELSE listeners
    /\ syncCallbacks' = AppHandlers
    /\ initPc' = "ready"
    /\ UNCHANGED <<isConnected, subscription, netinfo, isProcessing, stored, drains,
                   nextId, incidents, isOnline, hasLocation, isEmergencyActive,
                   currentIncidentId, call, obsVars>>
    /\ Silent

\* initializeLocation obtained a position
LocationFix ==
    /\ TaskBoundary
    /\ initPc = "ready"
    /\ ~hasLocation
    /\ hasLocation' = TRUE
    /\ UNCHANGED <<netVars, queueVars, incidents, initPc, isOnline, isEmergencyActive,
                   currentIncidentId, call, obsVars>>
    /\ Silent

\* the provider mounts again after an unmount whose initializeServices has
\* run to its end: its state is new, the services are the module's
\* singletons, and the effect calls initializeServices, which suspends in
\* networkService.init()
Remount ==
    /\ TaskBoundary
    /\ netinfo.destroyed
    /\ initPc = "ready"
    /\ netinfo.subs < MaxInits
    /\ netinfo' = [netinfo EXCEPT !.destroyed = FALSE]
    /\ initPc' = "start"
    /\ isOnline' = FALSE
    /\ hasLocation' = FALSE
    /\ isEmergencyActive' = FALSE
    /\ currentIncidentId' = 0
    /\ UNCHANGED <<isConnected, listeners, subscription, queueVars, incidents, call,
                   obsVars>>
    /\ Silent

NoHandlers == [t \in OpTypes |-> NoHandler]

\* ---------------------------------------------------------- specifications
\* what an earlier run of the app may have left behind: nothing, a queued
\* report, or a queued resolve of an incident it had reported
er1 == <<[id |-> 1, type |-> "emergency_report", data |-> 0, retries |-> 0]>>
ir1 == <<[id |-> 1, type |-> "incident_resolve", data |-> 1, retries |-> 0]>>
inc1 == <<[status |-> "responding", op |-> 0]>>

LeftBehind ==
    { [stored |-> <<>>, incidents |-> <<>>],
      [stored |-> Stringify(er1), incidents |-> <<>>],
      [stored |-> Stringify(ir1), incidents |-> inc1] }

InitMemory ==
    /\ queue = <<>>
    /\ isProcessing = FALSE
    /\ syncCallbacks = NoHandlers
    /\ drains = <<>>
    /\ isOnline = FALSE
    /\ hasLocation = FALSE
    /\ isEmergencyActive = FALSE
    /\ currentIncidentId = 0
    /\ call = IdleCall
    /\ attempts = [i \in 1..MaxOps |-> 0]
    /\ notified = <<>>
    /\ selectedIncident = NoSelection
    /\ geo = NoGeo
    /\ pending = NoSnapshot

\* the app process starts: memory as constructed, storage and primary store
\* as an earlier run left them
Init ==
    /\ InitMemory
    /\ isConnected = FALSE
    /\ listeners = <<>>
    /\ subscription = FALSE
    /\ netinfo = NoNetInfo
    /\ initPc = "start"
    /\ \E left \in LeftBehind :
          /\ stored = left.stored
          /\ incidents = left.incidents
          /\ persistedIds = {left.stored[i][1] : i \in 1..Len(left.stored)}
          /\ nextId = Len(left.stored) + 1

\* the caller of a returned call resumes
Resume ==
    /\ call.pc = "returned"
    /\ call' = IdleCall
    /\ UNCHANGED <<netVars, queueVars, incidents, initPc, isOnline, hasLocation,
                   isEmergencyActive, currentIncidentId, obsVars>>
    /\ Silent

\* a failed storage write is swallowed by saveQueue and changes nothing in
\* memory; QueueSpec follows it
Next ==
    \/ \E b \in BOOLEAN : InitNetwork(b)
    \/ \E ok \in BOOLEAN : InitQueue(ok)
    \/ LocationFix
    \/ \E b \in BOOLEAN : NetChange(b)
    \/ StartEmergency
    \/ \E o \in {"reported", "responding", "error"} : StoreInsertDone(o)
    \/ \E ok \in BOOLEAN : SmsDone(ok)
    \/ EndEmergency
    \/ \E ok \in BOOLEAN : ResolveUpdateDone(ok)
    \/ EnqueueSaveDone(TRUE)
    \/ Resume
    \/ \E k \in 1..Len(drains), o \in {"true", "false", "reported", "responding"} :
          HandlerDone(k, o)
    \/ \E k \in 1..Len(drains) : DrainSaveDone(k, TRUE)

Spec == Init /\ [][Next]_vars

\* the queue service on its own, initialised over an empty storage and
\* subscribed to the monitor, driven through its API by a client whose
\* handlers may succeed, return false or raise
QueueInit ==
    /\ InitMemory
    /\ isConnected \in BOOLEAN
    /\ listeners = <<"queue">>
    /\ subscription = TRUE
    /\ netinfo = Subscribed
    /\ initPc = "queue"
    /\ stored = <<>>
    /\ incidents = <<>>
    /\ persistedIds = {}
    /\ nextId = 1

QueueNext ==
    \/ \E t \in ClientTypes : RegisterSyncHandler(t)
    \/ \E t \in ClientTypes : Enqueue(t)
    \/ \E ok \in BOOLEAN : EnqueueSaveDone(ok)
    \/ Resume
    \/ ProcessQueueCall
    \/ \E b \in BOOLEAN : NetChange(b)
    \/ \E k \in 1..Len(drains), o \in {"true", "false", "raise"} : HandlerDone(k, o)
    \/ \E k \in 1..Len(drains), ok \in BOOLEAN : DrainSaveDone(k, ok)

QueueSpec == QueueInit /\ [][QueueNext]_vars

\* the queue service driven by a client that registers a handler for reports
\* and enqueues reports, the handler succeeding, returning false or raising
\* and the pass's final write succeeding or failing, with what the platform
\* guarantees of a suspended call: a handler's promise settles (the handlers
\* are taken to terminate), a storage write settles, and the caller of a
\* returned call resumes
QueueLiveNext ==
    \/ RegisterSyncHandler("emergency_report")
    \/ Enqueue("emergency_report")
    \/ EnqueueSaveDone(TRUE)
    \/ Resume
    \/ \E b \in BOOLEAN : NetChange(b)
    \/ \E k \in 1..Len(drains), o \in {"true", "false", "raise"} : HandlerDone(k, o)
    \/ \E k \in 1..Len(drains), ok \in BOOLEAN : DrainSaveDone(k, ok)

HandlerSettles ==
    \E k \in 1..Len(drains), o \in {"true", "false", "raise"} : HandlerDone(k, o)

WriteSettles == \E k \in 1..Len(drains), ok \in BOOLEAN : DrainSaveDone(k, ok)

QueueLiveSpec ==
    /\ QueueInit
    /\ [][QueueLiveNext]_vars
    /\ WF_vars(HandlerSettles)
    /\ WF_vars(WriteSettles)
    /\ WF_vars(Resume)

\* the app as initializeServices leaves it when every step of it succeeded:
\* the monitor subscribed and reporting conn, both listeners registered, the
\* queue q reloaded from the storage, the two sync handlers registered and a
\* location obtained
AppReady(conn, q) ==
    /\ isConnected = conn
    /\ listeners = <<"app", "queue">>
    /\ subscription = TRUE
    /\ netinfo = Subscribed
    /\ queue = q
    /\ isProcessing = FALSE
    /\ syncCallbacks = AppHandlers
    /\ stored = Stringify(q)
    /\ drains = <<>>
    /\ nextId = Len(q) + 1
    /\ incidents = <<>>
    /\ initPc = "ready"
    /\ isOnline = conn
    /\ hasLocation = TRUE
    /\ isEmergencyActive = FALSE
    /\ currentIncidentId = 0
    /\ call = IdleCall
    /\ attempts = [i \in 1..MaxOps |-> 0]
    /\ persistedIds = QueueIds(q)
    /\ notified = <<>>
    /\ selectedIncident = NoSelection
    /\ pending = NoSnapshot

\* the app initialised over an empty storage, with a location, and the admin
\* dashboard open on the same incidents table; the runs followed are those in
\* which no request to the primary store fails
StoreInit == geo = NoGeo /\ \E conn \in BOOLEAN : AppReady(conn, <<>>)

StoreNext ==
    \/ \E b \in BOOLEAN : NetChange(b)
    \/ StartEmergency
    \/ \E o \in {"reported", "responding"} : StoreInsertDone(o)
    \/ \E ok \in BOOLEAN : SmsDone(ok)
    \/ EndEmergency
    \/ ResolveUpdateDone(TRUE)
    \/ EnqueueSaveDone(TRUE)
    \/ Resume
    \/ \E k \in 1..Len(drains), o \in {"true", "reported", "responding"} :
          HandlerDone(k, o)
    \/ \E k \in 1..Len(drains) : DrainSaveDone(k, TRUE)
    \/ \E n \in 1..MaxIncidents : AdminSelect(n)
    \/ \E st \in {"acknowledged", "dispatched", "resolved"} : AdminUpdateStatus(st)

StoreSpec == StoreInit /\ [][StoreNext]_vars

\* the initialised app, its queue empty or reloaded with one report, with the
\* monitor driven by connectivity events and by probes
MonitorInit == geo = NoGeo /\ \E conn \in BOOLEAN, q \in {<<>>, er1} : AppReady(conn, q)

MonitorNext ==
    \/ \E b \in BOOLEAN : NetChange(b)
    \/ CheckConnection
    \/ \E o \in {"true", "false", "error"} : CheckConnectionDone(o)
    \/ Resume
    \/ \E k \in 1..Len(drains), o \in {"false", "reported", "responding"} :
          HandlerDone(k, o)
    \/ \E k \in 1..Len(drains) : DrainSaveDone(k, TRUE)

MonitorSpec == MonitorInit /\ [][MonitorNext]_vars

\* the responder lookups of the initialised, connected app, each made once
\* over a responders table of any content
GeoInit ==
    /\ AppReady(TRUE, <<>>)
    /\ \E table \in Tables : geo = [NoGeo EXCEPT !.responders = table]

GeoNext ==
    \/ \E loc \in Locations, cityId \in {0} \cup Cities, ok \in BOOLEAN :
          FindNearestResponder(loc, cityId, ok)
    \/ \E loc \in Locations, radiusKm \in 0..MaxKm, ok \in BOOLEAN :
          GetNearbyResponders(loc, radiusKm, ok)

GeoSpec == GeoInit /\ [][GeoNext]_vars

\* the initialised app over an empty queue, the monitor reporting connected
\* and no connectivity event arriving: every operation is enqueued while the
\* monitor reports connected and its kind has a handler
ConnectedInit == geo = NoGeo /\ AppReady(TRUE, <<>>)

ConnectedNext ==
    \/ StartEmergency
    \/ \E o \in {"reported", "responding", "error"} : StoreInsertDone(o)
    \/ EndEmergency
    \/ \E ok \in BOOLEAN : ResolveUpdateDone(ok)
    \/ EnqueueSaveDone(TRUE)
    \/ Resume
    \/ \E k \in 1..Len(drains), o \in {"true", "false", "reported", "responding"} :
          HandlerDone(k, o)
    \/ \E k \in 1..Len(drains) : DrainSaveDone(k, TRUE)

ConnectedSpec == ConnectedInit /\ [][ConnectedNext]_vars

\* the queue service driven through its API as in QueueSpec, over a storage
\* none of whose writes fails; the writes in flight complete in any order
DurableInit == QueueInit

DurableNext ==
    \/ \E t \in ClientTypes : RegisterSyncHandler(t)
    \/ \E t \in ClientTypes : Enqueue(t)
    \/ EnqueueSaveDone(TRUE)
    \/ Resume
    \/ ProcessQueueCall
    \/ \E b \in BOOLEAN : NetChange(b)
    \/ \E k \in 1..Len(drains), o \in {"true", "false", "raise"} : HandlerDone(k, o)
    \/ \E k \in 1..Len(drains) : DrainSaveDone(k, TRUE)

DurableSpec == DurableInit /\ [][DurableNext]_vars

\* the queue service driven by a client that enqueues reports, asks for the
\* list of pending operations and changes what it was given, marking an
\* operation as out of retries; no storage write fails and no handler raises
SnapshotInit == QueueInit

SnapshotNext ==
    \/ RegisterSyncHandler("emergency_report")
    \/ Enqueue("emergency_report")
    \/ EnqueueSaveDone(TRUE)
    \/ Resume
    \/ \E b \in BOOLEAN : NetChange(b)
    \/ \E k \in 1..Len(drains), o \in {"true", "false"} : HandlerDone(k, o)
    \/ \E k \in 1..Len(drains) : DrainSaveDone(k, TRUE)
    \/ GetPendingOperations
    \/ SnapshotShift
    \/ \E i \in 1..MaxOps : SnapshotWrite(i, MAX_RETRIES)

SnapshotSpec == SnapshotInit /\ [][SnapshotNext]_vars

\* the process is killed and the app is started again: the memory is as
\* constructed, the storage and the primary store are as they were (a write
\* in flight is lost), and the ids of new operations differ from those of the
\* old ones (they are made of the time and a random string).  One kill is
\* followed: that of a process that started over an empty storage and leaves
\* a queue in it.
Crash ==
    /\ persistedIds = {}
    /\ stored # <<>>
    /\ isConnected' = FALSE
    /\ listeners' = <<>>
    /\ subscription' = FALSE
    /\ netinfo' = NoNetInfo
    /\ queue' = <<>>
    /\ isProcessing' = FALSE
    /\ syncCallbacks' = NoHandlers
    /\ drains' = <<>>
    /\ initPc' = "start"
    /\ isOnline' = FALSE
    /\ hasLocation' = FALSE
    /\ isEmergencyActive' = FALSE
    /\ currentIncidentId' = 0
    /\ call' = IdleCall
    /\ attempts' = [i \in 1..MaxOps |-> 0]
    /\ persistedIds' = {stored[i][1] : i \in 1..Len(stored)}
    /\ UNCHANGED <<stored, nextId, incidents>>
    /\ Silent

\* the app started over an empty storage, reporting emergencies, and killed
\* and started again at any point; no storage access fails
CrashInit ==
    /\ Init
    /\ stored = <<>>

CrashNext ==
    \/ \E b \in BOOLEAN : InitNetwork(b)
    \/ InitQueue(TRUE)
    \/ LocationFix
    \/ \E b \in BOOLEAN : NetChange(b)
    \/ StartEmergency
    \/ \E o \in {"reported", "responding", "error"} : StoreInsertDone(o)
    \/ \E ok \in BOOLEAN : SmsDone(ok)
    \/ EnqueueSaveDone(TRUE)
    \/ Resume
    \/ \E k \in 1..Len(drains), o \in {"false", "reported", "responding"} :
          HandlerDone(k, o)
    \/ \E k \in 1..Len(drains) : DrainSaveDone(k, TRUE)
    \/ Crash

CrashSpec == CrashInit /\ [][CrashNext]_vars

\* the provider mounting and unmounting over an empty storage, with the
\* connectivity changing: the effect's cleanup may run at any point of
\* initializeServices
LifecycleInit ==
    /\ Init
    /\ stored = <<>>

LifecycleNext ==
    \/ \E b \in BOOLEAN : InitNetwork(b)
    \/ \E ok \in BOOLEAN : InitQueue(ok)
    \/ LocationFix
    \/ \E b \in BOOLEAN : NetChange(b)
    \/ Destroy
    \/ Remount

LifecycleSpec == LifecycleInit /\ [][LifecycleNext]_vars

\* ------------------------------------------------------------------ claims
StartReturned == call.pc = "returned" /\ call.op = "start"
EndReturned == call.pc = "returned" /\ call.op = "end"

\* C1: when the online path of startEmergency is unavailable or fails (the
\* monitor reported disconnected, or the primary-store report failed), the
\* SMS fallback has been attempted by the time startEmergency returns.
C1_FallbackAttempted ==
    (StartReturned /\ call.loc /\ (~call.conn \/ call.storeFailed)) => call.smsTried

\* C2: a startEmergency call made on an Idle session in which no incident
\* record was created and the SMS channel did not report success returns
\* failure and leaves the session Idle.
C2_ActiveOnlyIfReported ==
    (StartReturned /\ call.idle /\ call.created = 0 /\ ~call.smsOk)
        => (call.ret = "false" /\ ~isEmergencyActive)

\* C3: startEmergency called with a location while the monitor reports
\* disconnected, the SMS channel reporting success, returns with the session
\* Active and exactly one operation enqueued, of kind emergency_report; with
\* the monitor disconnected until it returns and the queue empty before, the
\* queue size is then 1.
C3_OfflineStartQueuesReport ==
    (StartReturned /\ call.loc /\ ~call.conn /\ call.smsOk)
        => /\ call.ret = "true"
           /\ isEmergencyActive
           /\ Len(call.enq) = 1
           /\ call.enq[1].type = "emergency_report"
           /\ (~call.up /\ call.qBefore = 0) => call.qAfter = 1

C3_Witness ==
    /\ StartReturned /\ call.loc /\ ~call.conn /\ call.smsOk /\ ~call.up
    /\ call.qBefore = 0
    /\ Len(queue) = 1 /\ queue[1].type = "emergency_report"
    /\ isEmergencyActive

\* the store inc holds an incident created by replaying operation id
HasIncidentIn(inc, id) == \E n \in 1..Len(inc) : inc[n].op = id

\* the retry count operation i of the queue has when the running step ends:
\* the handler being awaited may be failing on it
RetriesAfterStep(i) ==
    IF \E k \in 1..Len(drains) : drains[k].pc = "handler" /\ drains[k].idx = i
    THEN queue[i].retries + 1 ELSE queue[i].retries

\* C4 as claimed: an emergency_report operation never leaves the queue without
\* its incident having been created in the primary store.
C4_NeverLeavesUnreported ==
    [][\A i \in 1..Len(queue) :
          (queue[i].type = "emergency_report" /\ queue[i].id \notin QueueIds(queue'))
              => HasIncidentIn(incidents', queue[i].id)]_vars

\* C4 as amended: processQueue removes an emergency_report operation only when
\* its replay created the incident or its retry count has reached MAX_RETRIES.
C4_LeavesReportedOrExhausted ==
    [][\A i \in 1..Len(queue) :
          (queue[i].type = "emergency_report" /\ queue[i].id \notin QueueIds(queue'))
              => (HasIncidentIn(incidents', queue[i].id)
                  \/ RetriesAfterStep(i) >= MAX_RETRIES)]_vars

\* an emergency_report that failed MAX_RETRIES times is marked for removal
\* with no incident of its own in the store
C4_Witness ==
    \E k \in 1..Len(drains), i \in 1..Len(queue) :
        /\ drains[k].pc = "handler"
        /\ queue[i].id \in drains[k].processed
        /\ queue[i].type = "emergency_report"
        /\ queue[i].retries = MAX_RETRIES
        /\ ~HasIncidentIn(incidents, queue[i].id)

\* C5: between drain passes every queued operation has retries < MAX_RETRIES,
\* whatever its handler did (succeed, return false, raise).
C5_RetriesBelowCeiling ==
    ~isProcessing => \A i \in 1..Len(queue) : queue[i].retries < MAX_RETRIES

\* C6: an operation whose handler failed on every attempt (false or raise) is
\* gone from the queue once MAX_RETRIES passes have attempted it.
C6_GoneAfterMaxRetriesPasses ==
    ~isProcessing => \A i \in 1..Len(queue) : attempts[queue[i].id] < MAX_RETRIES

\* C7: at most one processQueue call is past the reentrancy guard at any time,
\* whoever made the calls; a call made while one is running starts nothing.
C7_AtMostOneDrain ==
    /\ Len(drains) <= 1
    /\ isProcessing <=> Len(drains) = 1

\* the processQueue call of an enqueue found a drain running and returned
C7_Witness ==
    /\ call.pc = "returned" /\ call.pq = "blocked"
    /\ Len(drains) = 1 /\ drains[1].pc = "handler"
    /\ Len(listeners) = 2

\* C8: with the app initialised, the monitor reporting connected and nothing
\* in flight (so nothing more happens without a transition or an enqueue),
\* every operation reloaded from the storage whose kind has a handler has
\* been handed to it.
C8_ReloadedOpsReplayed ==
    (initPc = "ready" /\ isConnected /\ drains = <<>> /\ call.pc = "idle")
        => \A i \in 1..Len(queue) :
              (queue[i].id \in persistedIds /\ syncCallbacks[queue[i].type] # NoHandler)
                  => attempts[queue[i].id] > 0

\* C9: when endEmergency returns true for a session with incident X: X is
\* resolved in the store if the monitor reported connected, exactly one
\* incident_resolve carrying X was enqueued if it reported disconnected, and
\* the session is Idle.
C9_EndResolvesOrQueues ==
    (EndReturned /\ call.ret = "true" /\ call.x # 0)
        => /\ call.conn => call.resolved
           /\ ~call.conn => call.enq = <<[type |-> "incident_resolve", data |-> call.x]>>
           /\ ~isEmergencyActive
           /\ currentIncidentId = 0

EndOnIdleNoOp ==
    /\ ~isEmergencyActive
    /\ currentIncidentId = 0
    /\ call.enq = <<>>
    /\ ~call.touched
    /\ call.qAfter = call.qBefore

\* C10 as claimed: endEmergency on an Idle session changes nothing and
\* returns false or an explicit no-active-session result.
C10_EndOnIdleReturnsFalse ==
    (EndReturned /\ call.idle) => (EndOnIdleNoOp /\ call.ret \in {"false", "no-active-session"})

\* C10 as amended: endEmergency on an Idle session changes no session state,
\* enqueues nothing, touches no incident in the store, and returns true.
C10_EndOnIdleIsNoOp ==
    (EndReturned /\ call.idle) => (EndOnIdleNoOp /\ call.ret = "true")

C10_Witness == EndReturned /\ call.idle /\ call.ret = "true" /\ initPc = "ready"

\* C11: a startEmergency call made on a session that is not Idle (a report
\* is already active) creates no second incident, sends no second SMS,
\* enqueues no second emergency_report and leaves currentIncidentId as it was.
C11_SingleReportPerSession ==
    (StartReturned /\ ~call.idle)
        => /\ call.created = 0
           /\ ~call.smsTried
           /\ call.enq = <<>>
           /\ currentIncidentId = call.x

Terminal(status) == status \in {"resolved", "cancelled"}

\* the place of a status in the forward order; acknowledged and dispatched
\* are the dashboard's names for the stage between reported and resolved
StatusRank(status) ==
    CASE status = "reported" -> 1
      [] status \in {"responding", "acknowledged", "dispatched"} -> 2
      [] OTHER -> 3

\* C12: an incident's status only moves forward: no write changes the status
\* of an incident that is resolved or cancelled, and none moves a status
\* backwards, whatever the interleaving of the report, a queued replay, the
\* resolve and the admin status update.
C12_StatusOnlyForward ==
    [][\A n \in 1..Len(incidents) :
          /\ Terminal(incidents[n].status) => incidents'[n].status = incidents[n].status
          /\ StatusRank(incidents'[n].status) >= StatusRank(incidents[n].status)]_vars

\* the processQueue invocations among the callbacks a task invoked
ProcessQueueInvocations(n) == Len(SelectSeq(n, LAMBDA d : d.pq))

\* C13: a Disconnected->Connected transition of the monitor results in
\* exactly one processQueue invocation, and a Connected->Connected report in
\* none.
C13_OneInvocationPerReconnect ==
    [][/\ (~isConnected /\ isConnected') => ProcessQueueInvocations(notified') = 1
       /\ (isConnected /\ isConnected') => ProcessQueueInvocations(notified') = 0]_vars

\* C14: every subscribed callback is invoked exactly once, with the new
\* value, for each genuine change of the monitor's connectivity state, and
\* never for a report or probe that repeats the current state.
C14_NotifiedOncePerChange ==
    [][/\ (isConnected' # isConnected)
            => /\ Len(notified') = Len(listeners)
               /\ \A i \in 1..Len(listeners) :
                     /\ notified'[i].listener = listeners[i]
                     /\ notified'[i].value = isConnected'
       /\ (isConnected' = isConnected) => notified' = <<>>]_vars

\* C15: a probe whose connectivity read fails raises nothing, returns false
\* and leaves the monitor Disconnected: getStatus() is false afterwards.
C15_FailedProbeIsDisconnected ==
    (call.pc = "returned" /\ call.op = "check" /\ call.fetchFailed)
        => (call.ret = "false" /\ ~isConnected)

\* C16: enqueue never fails.  Its push appends the new operation with
\* retries 0 (the queue grows by one); when the storage write then fails,
\* enqueue still returns an operation id, the step takes nothing out of the
\* in-memory queue, and processQueue is triggered if the monitor reports
\* connected.
C16_EnqueueNeverFails ==
    [][/\ (call.pc = "idle" /\ call'.pc = "enq_save")
            => /\ Len(queue') = Len(queue) + 1
               /\ SubSeq(queue', 1, Len(queue)) = queue
               /\ queue'[Len(queue')].retries = 0
               /\ queue'[Len(queue')].type = call'.enq[1].type
       /\ (call.pc = "enq_save" /\ call'.pc = "returned" /\ ~call'.saveOk)
            => /\ call'.ret = "id"
               /\ queue' = queue
               /\ stored' = stored
               /\ isConnected => call'.pq \in {"started", "blocked"}]_vars

\* an enqueue whose write failed has returned with the operation queued and a
\* drain pass started
C16_Witness ==
    /\ call.pc = "returned" /\ call.op = "enqueue" /\ ~call.saveOk
    /\ call.ret = "id"
    /\ call.pq = "started"
    /\ call.qAfter = call.qBefore + 1
    /\ queue[Len(queue)].retries = 0
    /\ stored = <<>>

IdsOf(q) == [i \in 1..Len(q) |-> q[i].id]

\* C17: the pass that ends (its last handler settles and the queue is
\* filtered) removes exactly the operations whose handler returned success or
\* whose retry count reached MAX_RETRIES in the pass: none of these is left,
\* every other operation is, and those left keep their relative order.
C17_PassRemovesExactly ==
    [][\A k \in 1..Len(drains) :
          (drains[k].pc = "handler" /\ k <= Len(drains') /\ drains'[k].pc = "save")
              => /\ \A i \in 1..Len(queue') : queue'[i].retries < MAX_RETRIES
                 /\ \A i \in 1..Len(queue) :
                       queue[i].id \in drains[k].processed
                           => queue[i].id \notin QueueIds(queue')
                 /\ \A i \in 1..Len(queue) :
                       (queue[i].id \notin drains[k].processed /\ i # drains[k].idx)
                           => queue[i].id \in QueueIds(queue')
                 /\ IdsOf(queue')
                        = SelectSeq(IdsOf(queue), LAMBDA id : id \in QueueIds(queue'))]_vars

\* C18: within a pass handlers are invoked in FIFO enqueue order, one at a
\* time: the operation a pass hands to its handler next lies after the one it
\* attempted before (whose handler has settled), no operation with a handler
\* between the two is passed over, and everything before it in the queue was
\* enqueued earlier.
C18_FifoWithinPass ==
    [][\A k \in 1..Len(drains') :
          (drains'[k].pc = "handler" /\ (k > Len(drains) \/ drains'[k] # drains[k]))
              => LET j == drains'[k].idx
                     prev == IF k <= Len(drains) /\ drains[k].pc = "handler"
                             THEN drains[k].idx ELSE 0
                 IN  /\ j > prev
                     /\ \A i \in (prev + 1)..(j - 1) :
                           syncCallbacks'[queue'[i].type] = NoHandler
                     /\ \A i \in 1..(j - 1) : queue'[i].id < queue'[j].id]_vars

\* a pass is at its second operation after the first one's handler settled
C18_Witness ==
    /\ Len(queue) >= 2
    /\ Len(drains) = 1 /\ drains[1].pc = "handler" /\ drains[1].idx = 2
    /\ attempts[queue[1].id] > 0
    /\ syncCallbacks[queue[2].type] # NoHandler

\* the rows of the table a lookup is about: available, and of the given city
\* when one is given
AvailableIn(g, cityId) ==
    {i \in 1..Len(g.responders) :
        /\ g.responders[i].is_available
        /\ cityId # 0 => g.responders[i].city_id = cityId}

DistanceOf(g, i) == CalculateDistance(g.loc, g.responders[i].pos)

NearestIsMinimal(g) ==
    LET C == AvailableIn(g, g.cityId)
    IN  IF C = {} THEN g.result = <<>>
        ELSE /\ Len(g.result) = 1
             /\ g.result[1].id \in C
             /\ g.result[1].distance = DistanceOf(g, g.result[1].id)
             /\ \A c \in C : g.result[1].distance <= DistanceOf(g, c)

\* C19 as claimed: findNearestResponder returns an available responder (of
\* the given city when one is given) at minimal distance, and null exactly
\* when there is no such responder.
C19_NearestIsMinimal == geo.op = "nearest" => NearestIsMinimal(geo)

\* C19 as amended: it does so when its query succeeds, and returns null when
\* the query fails.
C19_NearestIsMinimalUnlessFailed ==
    geo.op = "nearest" => IF geo.failed THEN geo.result = <<>> ELSE NearestIsMinimal(geo)

\* the nearest responder returned is not the first candidate of the table,
\* which is farther away
C19_Witness ==
    /\ geo.op = "nearest" /\ ~geo.failed /\ geo.cityId # 0
    /\ Len(geo.result) = 1
    /\ \E c \in AvailableIn(geo, geo.cityId) :
          c < geo.result[1].id /\ DistanceOf(geo, c) > geo.result[1].distance
    /\ \E i \in 1..Len(geo.responders) :
          i \notin AvailableIn(geo, geo.cityId)
              /\ DistanceOf(geo, i) < geo.result[1].distance

NearbyIsExact(g) ==
    LET C == {i \in AvailableIn(g, 0) : DistanceOf(g, i) <= g.radiusKm}
    IN  /\ Len(g.result) = Cardinality(C)
        /\ {g.result[i].id : i \in 1..Len(g.result)} = C
        /\ \A i \in 1..Len(g.result) : g.result[i].distance = DistanceOf(g, g.result[i].id)
        /\ \A i, j \in 1..Len(g.result) :
              i < j => \/ g.result[i].distance < g.result[j].distance
                       \/ /\ g.result[i].distance = g.result[j].distance
                          /\ g.result[i].id < g.result[j].id

\* C20 as claimed: getNearbyResponders returns exactly the available
\* responders at distance <= radiusKm, by ascending distance, those at equal
\* distance in the order of the candidates.
C20_NearbyIsExact == geo.op = "nearby" => NearbyIsExact(geo)

\* C20 as amended: it does so when its query succeeds, and returns the empty
\* list when the query fails.
C20_NearbyIsExactUnlessFailed ==
    geo.op = "nearby" => IF geo.failed THEN geo.result = <<>> ELSE NearbyIsExact(geo)

\* a list of two responders at the same distance, which is the radius, with
\* an available responder beyond the radius left out
C20_Witness ==
    /\ geo.op = "nearby" /\ ~geo.failed
    /\ Len(geo.result) = 2
    /\ geo.result[1].distance = geo.result[2].distance
    /\ geo.result[2].distance = geo.radiusKm
    /\ \E i \in AvailableIn(geo, 0) : DistanceOf(geo, i) > geo.radiusKm

\* C21: an operation enqueued while a pass is in flight is not handed to its
\* handler during that pass: the operation a pass is attempting was in the
\* queue when the pass started.
C21_EnqueuedDuringPassWaits ==
    \A k \in 1..Len(drains) :
        drains[k].pc = "handler" => queue[drains[k].idx].id < drains[k].since

\* C22: an operation whose kind has no registered handler is skipped: no
\* step takes it out of the queue, changes its retry count or lets an
\* operation that was behind it get in front of it, and a pass that starts,
\* goes on or ends has passed over no operation with a handler.
C22_NoHandlerIsSkipped ==
    [][/\ \A i \in 1..Len(queue) :
             (syncCallbacks[queue[i].type] = NoHandler
                 /\ syncCallbacks'[queue[i].type] = NoHandler)
                 => \E j \in 1..Len(queue') :
                       /\ queue'[j] = queue[i]
                       /\ \A m \in 1..(j - 1) :
                             \E n \in 1..(i - 1) : queue'[m].id = queue[n].id
       /\ \A k \in 1..Len(drains') :
             (k > Len(drains) \/ (drains[k].pc = "handler" /\ drains'[k] # drains[k]))
                 => LET prev == IF k <= Len(drains) THEN drains[k].idx ELSE 0
                        next == IF drains'[k].pc = "handler"
                                THEN drains'[k].idx ELSE Len(queue) + 1
                    IN  /\ next > prev
                        /\ \A i \in (prev + 1)..(next - 1) :
                              syncCallbacks[queue[i].type] = NoHandler]_vars

\* a pass is attempting the operation behind one that has no handler and has
\* not been touched
C22_Witness ==
    /\ Len(queue) = 2
    /\ syncCallbacks[queue[1].type] = NoHandler
    /\ queue[1].retries = 0
    /\ Len(drains) = 1 /\ drains[1].pc = "handler" /\ drains[1].idx = 2
    /\ queue[2].retries > 0

\* C23: the list returned by getPendingOperations is mutation-safe: a step in
\* which the client changes the list it was given, or an operation object in
\* it, leaves the queue (its operations, their order and their retry counts)
\* as it was.
C23_SnapshotIsMutationSafe ==
    [][pending' # pending => queue' = queue]_vars

\* C24: after destroy(), and until init() is called again, the monitor holds
\* no OS connectivity subscription (none is registered with the platform,
\* none is kept in its field) and no listener, and no callback is invoked.
C24_DestroyReleasesAll ==
    netinfo.destroyed
        => /\ netinfo.subs = 0
           /\ ~subscription
           /\ listeners = <<>>
           /\ notified = <<>>

\* the incident records inserted by replays of the queued operation id
InsertedFor(id) == {n \in 1..Len(incidents) : incidents[n].op = id}

\* C25: each reported emergency leads to at most one incident record: a
\* startEmergency call whose online attempt inserted a record enqueues no
\* report, and the replays of one queued report insert at most one record.
C25_AtMostOneIncidentPerReport ==
    /\ (StartReturned /\ call.created # 0) => call.enq = <<>>
    /\ \A id \in 1..MaxOps : Cardinality(InsertedFor(id)) <= 1

\* C26: once the emergencies of this run have been ended (the session is
\* Idle), the monitor reports connected and nothing is queued or in flight
\* any more, every incident record a replay of their reports inserted is
\* resolved.
C26_EndedEmergencyResolved ==
    (/\ call.pc = "idle"
     /\ ~isEmergencyActive
     /\ isConnected
     /\ queue = <<>>
     /\ drains = <<>>)
        => \A n \in 1..Len(incidents) :
              (incidents[n].op # 0 /\ incidents[n].op \notin persistedIds)
                  => incidents[n].status = "resolved"

\* C27: a step in which a pass hands an operation to its handler, or in which
\* an operation's retry count grows, is a step taken while the monitor
\* reports connected.
C27_NoAttemptWhileDisconnected ==
    [][/\ \A k \in 1..Len(drains') :
             (/\ drains'[k].pc = "handler"
              /\ (k > Len(drains) \/ drains[k].pc # "handler"
                     \/ drains[k].idx # drains'[k].idx))
                 => isConnected'
       /\ \A i \in 1..Len(queue), j \in 1..Len(queue') :
             (queue'[j].id = queue[i].id /\ queue'[j].retries > queue[i].retries)
                 => isConnected']_vars

\* C28: whenever no enqueue and no processQueue call is in flight, every
\* storage write having succeeded, the storage holds the in-memory queue:
\* the same operations in the same order with the same retry counts (an
\* absent key being the empty queue).
C28_PersistedEqualsMemory ==
    (call.pc = "idle" /\ drains = <<>>) => stored = Stringify(queue)

\* C29: an operation enqueued while the monitor reports connected and its
\* kind has a handler is handed to the handler without a further enqueue or
\* connectivity change: when no call is in flight any more, every operation
\* still queued has been handed to its handler at least once.
C29_EnqueuedIsHandedOver ==
    (call.pc = "idle" /\ drains = <<>>)
        => \A i \in 1..Len(queue) : attempts[queue[i].id] > 0

====
